---- MODULE Spec2Model ----
(***************************************************************************)
(* Media resolution engine of instantdownloader.                           *)
(*                                                                         *)
(*   /api/download   src/unnamed/part_002   POST, downloadInstagram,       *)
(*                                           downloadStarMaker             *)
(*   instagram route src/unnamed/part_001   POST (partner API, open        *)
(*                                           aggregator, secondary scraper)*)
(*   client          src/src/components/download-form.tsx                  *)
(*                                           detectPlatform, validateUrl   *)
(*   /api/youtube/info  src/src/app/api/youtube/info/route.ts   POST       *)
(*   form            src/src/components/download-form.tsx                  *)
(*                                           handleDownload, handlePaste   *)
(*   stream relay    /api/youtube/download, after section 4.5 of the       *)
(*                                           specification                 *)
(*                                                                         *)
(* A string is a sequence of one-character strings, so that includes(),    *)
(* the regular expressions and the URL parser act on characters.           *)
(***************************************************************************)
EXTENDS Integers, Sequences, FiniteSets, TLC

VARIABLES
    url,          \* body.url of the request being handled
    route,        \* which POST handler serves it: "download" or "instagram"
    rapidApiKey,  \* process.env.RAPIDAPI_KEY is configured
    pc,           \* position of the handler
    cleanedUrl,   \* const cleanedUrl
    platform,     \* branch the handler dispatched to
    ident,        \* shortcode / recordingId
    log,          \* upstream calls in order: a strategy's start, and its end with its outcome
    reply,        \* kind of the upstream reply handled last: "throw", "notok" or "ok"
    resp,         \* the NextResponse returned
    page,         \* the share page's reply to downloadStarMaker
    embed,        \* the embed page's reply to downloadInstagram
    fn,           \* results of the pure URL functions (UrlSpec)
    info,         \* what ytdl.getInfo resolved to (CatalogSpec)
    catalog,      \* the NextResponse of /api/youtube/info (CatalogSpec)
    form,         \* the useState values of DownloadForm (FormSpec)
    calls,        \* the handleDownload invocations waiting for their fetch (FormSpec)
    last,         \* the URLs the latest handleDownload invocation used (FormSpec)
    relay         \* the stream relay of one download (RelaySpec)

formVars == <<form, calls, last>>

vars == <<url, route, rapidApiKey, pc, cleanedUrl, platform, ident, log, reply, resp, page, embed,
          fn, info, catalog, formVars, relay>>

----------------------------------------------------------------------------
(* Bounds *)

MaxIdLen == 2       \* longest identifier put into a request URL
MaxCaptureLen == 2  \* longest text captured from an upstream body
MaxPicker == 2      \* most items of an aggregator picker

----------------------------------------------------------------------------
(* Characters and strings *)

LowerSeq == <<"a", "b", "c", "d", "e", "f", "g", "h", "i", "j", "k", "l", "m", "n", "o", "p", "q", "r", "s", "t", "u", "v", "w", "x", "y", "z">>
UpperSeq == <<"A", "B", "C", "D", "E", "F", "G", "H", "I", "J", "K", "L", "M", "N", "O", "P", "Q", "R", "S", "T", "U", "V", "W", "X", "Y", "Z">>
DigitSeq == <<"0", "1", "2", "3", "4", "5", "6", "7", "8", "9">>

Range(s) == {s[i] : i \in 1..Len(s)}

Lower == Range(LowerSeq)
Upper == Range(UpperSeq)
Digit == Range(DigitSeq)

\* every character a URL of the model is written with
Char == Lower \cup Upper \cup Digit \cup {"_", "-", ".", "/", ":", "?", "=", "#", "&"}

\* JavaScript null (no match) and undefined (absent field); neither is a string
Null == <<"null">>
Undefined == <<"undefined">>

Min(S) == CHOOSE x \in S : \A y \in S : x <= y

\* lit occurs in s at index i
StartsAt(s, i, lit) ==
    /\ i >= 1
    /\ i + Len(lit) - 1 <= Len(s)
    /\ SubSeq(s, i, i + Len(lit) - 1) = lit

\* String.prototype.includes, for a non-empty lit
includes(s, lit) == \E i \in 1..Len(s) : StartsAt(s, i, lit)

\* first index >= i whose character is outside Class (Len(s) + 1 if none):
\* the end of the greedy run Class* that starts at i
RECURSIVE RunEnd(_, _, _)
RunEnd(s, i, Class) ==
    IF i <= Len(s) /\ s[i] \in Class THEN RunEnd(s, i + 1, Class) ELSE i

\* as MatchLitRun, but returns match[0], the whole match, for the capture group
MatchLitRun_WholeMatch(s, lit, Class) ==
    LET P == {i \in 1..Len(s) :
                 StartsAt(s, i, lit) /\ RunEnd(s, i + Len(lit), Class) > i + Len(lit)}
    IN  IF P = {} THEN Null
        ELSE SubSeq(s, Min(P), RunEnd(s, Min(P) + Len(lit), Class) - 1)

\* leftmost match of the regular expression  lit(Class+) : its capture group
MatchLitRun(s, lit, Class) ==
    LET P == {i \in 1..Len(s) :
                 StartsAt(s, i, lit) /\ RunEnd(s, i + Len(lit), Class) > i + Len(lit)}
    IN  IF P = {} THEN Null
        ELSE LET j == Min(P) + Len(lit) IN SubSeq(s, j, RunEnd(s, j, Class) - 1)

toLowerCase(c) ==
    IF c \in Upper THEN LowerSeq[CHOOSE i \in 1..Len(UpperSeq) : UpperSeq[i] = c] ELSE c

----------------------------------------------------------------------------
(* Literals of the source *)

InstagramCom == <<"i", "n", "s", "t", "a", "g", "r", "a", "m", ".", "c", "o", "m">>
StarmakerStudiosCom == <<"s", "t", "a", "r", "m", "a", "k", "e", "r", "s", "t", "u", "d", "i", "o", "s", ".", "c", "o", "m">>
StarmakerCo == <<"s", "t", "a", "r", "m", "a", "k", "e", "r", ".", "c", "o">>
MStarmaker == <<"m", ".", "s", "t", "a", "r", "m", "a", "k", "e", "r">>
YoutubeCom == <<"y", "o", "u", "t", "u", "b", "e", ".", "c", "o", "m">>
YoutuBe == <<"y", "o", "u", "t", "u", ".", "b", "e">>
RecordingIdEq == <<"r", "e", "c", "o", "r", "d", "i", "n", "g", "I", "d", "=">>
Http == <<"h", "t", "t", "p", ":", "/", "/">>
Https == <<"h", "t", "t", "p", "s", ":", "/", "/">>
Www == <<"w", "w", "w", ".">>
SlashP == <<"/", "p", "/">>
SlashReel == <<"/", "r", "e", "e", "l", "/">>
SlashReels == <<"/", "r", "e", "e", "l", "s", "/">>
SlashStories == <<"/", "s", "t", "o", "r", "i", "e", "s", "/">>

\* [A-Za-z0-9_-]
ShortcodeChar == Lower \cup Upper \cup Digit \cup {"_", "-"}
\* [^/]
NotSlash == Char \ {"/"}

----------------------------------------------------------------------------
(* Identifier extractor: src/unnamed/part_002 lines 15-36 *)

\* /instagram\.com\/p\/([A-Za-z0-9_-]+)/
PatternPost(u) == MatchLitRun(u, InstagramCom \o SlashP, ShortcodeChar)

\* /instagram\.com\/reel\/([A-Za-z0-9_-]+)/
PatternReel(u) == MatchLitRun(u, InstagramCom \o SlashReel, ShortcodeChar)

\* /instagram\.com\/reels?\/([A-Za-z0-9_-]+)/ : at one index at most one of
\* "reel/" and "reels/" matches, so the leftmost match is the leftmost of both
PatternReels(u) ==
    LET lits == {InstagramCom \o SlashReel, InstagramCom \o SlashReels}
        At(i) == {l \in lits : StartsAt(u, i, l)
                                 /\ RunEnd(u, i + Len(l), ShortcodeChar) > i + Len(l)}
        P == {i \in 1..Len(u) : At(i) # {}}
    IN  IF P = {} THEN Null
        ELSE LET i == Min(P)
                 l == CHOOSE x \in At(i) : TRUE
                 j == i + Len(l)
             IN  SubSeq(u, j, RunEnd(u, j, ShortcodeChar) - 1)

\* /instagram\.com\/stories\/[^/]+\/(\d+)/ : [^/]+ cannot cross a slash, so it
\* ends at the first slash after the user name
PatternStory(u) ==
    LET lit == InstagramCom \o SlashStories
        UserEnd(i) == RunEnd(u, i + Len(lit), NotSlash)
        Ok(i) == /\ StartsAt(u, i, lit)
                 /\ UserEnd(i) > i + Len(lit)
                 /\ UserEnd(i) <= Len(u)
                 /\ RunEnd(u, UserEnd(i) + 1, Digit) > UserEnd(i) + 1
        P == {i \in 1..Len(u) : Ok(i)}
    IN  IF P = {} THEN Null
        ELSE LET j == UserEnd(Min(P)) + 1 IN SubSeq(u, j, RunEnd(u, j, Digit) - 1)

ShortcodeCapture(u) ==
    IF PatternPost(u) # Null THEN PatternPost(u)
    ELSE IF PatternReel(u) # Null THEN PatternReel(u)
    ELSE IF PatternReels(u) # Null THEN PatternReels(u)
    ELSE PatternStory(u)

extractInstagramShortcode(u) == ShortcodeCapture(u)

\* src/unnamed/part_001 lines 13-28: the same four patterns
extractShortcode(u) == ShortcodeCapture(u)

\* url.match(/recordingId=(\d+)/)?.[1] || null
RecordingIdCapture(u) == MatchLitRun(u, RecordingIdEq, Digit)

extractStarMakerRecordingId(u) == RecordingIdCapture(u)

----------------------------------------------------------------------------
(* Platform classifier *)

\* src/unnamed/part_002 lines 38-46
isStarMakerUrl(u) ==
    \/ includes(u, StarmakerStudiosCom)
    \/ includes(u, StarmakerCo)
    \/ includes(u, MStarmaker)

isInstagramUrl(u) == includes(u, InstagramCom)

\* src/src/components/download-form.tsx lines 60-65
detectPlatform(inputUrl) ==
    IF includes(inputUrl, InstagramCom) THEN "instagram"
    ELSE IF includes(inputUrl, StarmakerStudiosCom) \/ includes(inputUrl, StarmakerCo)
         THEN "starmaker"
    ELSE IF includes(inputUrl, YoutubeCom) \/ includes(inputUrl, YoutuBe) THEN "youtube"
    ELSE "null"

\* index after ^https?:\/\/ , 0 when the URL does not start with it
AfterScheme(u) ==
    IF StartsAt(u, 1, Https) THEN Len(Https) + 1
    ELSE IF StartsAt(u, 1, Http) THEN Len(Http) + 1
    ELSE 0

\* index after an optional (www\.)? at i
AfterWww(u, i) == IF StartsAt(u, i, Www) THEN i + Len(Www) ELSE i

\* as InstagramUrlTest, but without the optional (www\.)?
InstagramUrlTest_NoWww(u) ==
    /\ AfterScheme(u) # 0
    /\ \E seg \in {SlashP, SlashReel, SlashReels, SlashStories} :
           LET lit == InstagramCom \o seg
               i == AfterScheme(u)
           IN  /\ StartsAt(u, i, lit)
               /\ RunEnd(u, i + Len(lit), ShortcodeChar) > i + Len(lit)

\* /^https?:\/\/(www\.)?instagram\.com\/(p|reel|reels|stories)\/[A-Za-z0-9_-]+/
InstagramUrlTest(u) ==
    /\ AfterScheme(u) # 0
    /\ LET i == AfterWww(u, AfterScheme(u))
       IN  \E seg \in {SlashP, SlashReel, SlashReels, SlashStories} :
               LET lit == InstagramCom \o seg
               IN  /\ StartsAt(u, i, lit)
                   /\ RunEnd(u, i + Len(lit), ShortcodeChar) > i + Len(lit)

\* /^(https?:\/\/)?(www\.)?(youtube\.com|youtu\.be)\/.+$/
YoutubeUrlTest(u) ==
    \E i \in {1, AfterScheme(u)} :
        /\ i # 0
        /\ \E dom \in {YoutubeCom, YoutuBe} :
               LET j == AfterWww(u, i)
               IN  /\ StartsAt(u, j, dom \o <<"/">>)
                   /\ j + Len(dom) + 1 <= Len(u)

\* src/src/components/download-form.tsx lines 67-80
validateUrl(inputUrl) ==
    LET p == detectPlatform(inputUrl)
    IN  IF p = "instagram" THEN InstagramUrlTest(inputUrl)
        ELSE IF p = "starmaker" THEN RecordingIdCapture(inputUrl) # Null
        ELSE IF p = "youtube" THEN YoutubeUrlTest(inputUrl)
        ELSE FALSE

----------------------------------------------------------------------------
(* cleanUrl: new URL(url), then origin + pathname (+ search) *)

HostStop == {"/", "?", "#"}

\* new URL(u) succeeds: an http(s) scheme followed by a non-empty host
\* (a string without a scheme has no base to resolve against and throws)
UrlParses(u) ==
    /\ AfterScheme(u) # 0
    /\ RunEnd(u, AfterScheme(u), Char \ HostStop) > AfterScheme(u)

HostEnd(u) == RunEnd(u, AfterScheme(u), Char \ HostStop)
PathEnd(u) == RunEnd(u, HostEnd(u), Char \ {"?", "#"})
SearchEnd(u) == RunEnd(u, PathEnd(u), Char \ {"#"})

\* urlObj.origin: the scheme and the host in lower case
UrlOrigin(u) ==
    SubSeq(u, 1, AfterScheme(u) - 1)
        \o [i \in 1..(HostEnd(u) - AfterScheme(u)) |-> toLowerCase(u[AfterScheme(u) + i - 1])]

\* urlObj.pathname: "/" when the URL has no path
UrlPathname(u) ==
    IF PathEnd(u) = HostEnd(u) THEN <<"/">> ELSE SubSeq(u, HostEnd(u), PathEnd(u) - 1)

\* urlObj.search: "" when the query is absent or empty
UrlSearch(u) ==
    IF SearchEnd(u) - PathEnd(u) <= 1 THEN <<>> ELSE SubSeq(u, PathEnd(u), SearchEnd(u) - 1)

\* src/unnamed/part_002 lines 49-56
cleanUrl(u) ==
    IF UrlParses(u) THEN UrlOrigin(u) \o UrlPathname(u) \o UrlSearch(u) ELSE u

\* src/unnamed/part_001 lines 31-38: origin and pathname only
cleanUrlPathOnly(u) ==
    IF UrlParses(u) THEN UrlOrigin(u) \o UrlPathname(u) ELSE u

----------------------------------------------------------------------------
(* Request URLs *)

RECURSIVE SeqsUpTo(_, _)
SeqsUpTo(A, n) ==
    IF n = 0 THEN {<<>>}
    ELSE LET S == SeqsUpTo(A, n - 1) IN S \cup {Append(s, a) : s \in S, a \in A}

IdAlphabet == {"a", "7"}
Ids == SeqsUpTo(IdAlphabet, MaxIdLen)

Schemes == {Https, Http, <<>>}

InstagramHosts ==
    { Www \o InstagramCom,
      InstagramCom,
      <<"m", ".">> \o InstagramCom,
      <<"w", "w", "w", ".", "I", "n", "s", "t", "a", "g", "r", "a", "m", ".", "c", "o", "m">> }

InstagramPaths ==
    { SlashP, SlashReel, SlashReels, SlashStories,
      SlashStories \o <<"u", "/">>,
      <<"/", "t", "v", "/">> }

RefStarmaker == <<"?", "r", "e", "f", "=", "s", "t", "a", "r", "m", "a", "k", "e", "r", ".", "c", "o">>

InstagramTails == {<<>>, <<"/">>, <<"/">> \o RefStarmaker}

InstagramUrls ==
    { s \o h \o p \o id \o t :
        s \in Schemes, h \in InstagramHosts, p \in InstagramPaths,
        id \in Ids, t \in InstagramTails }

StarMakerHosts ==
    { <<"m", ".">> \o StarmakerCo,
      Www \o StarmakerStudiosCom,
      <<"m", ".", "s", "t", "a", "r", "m", "a", "k", "e", "r", ".", "t", "v">> }

SharePath == <<"/", "s", "h", "a", "r", "e">>

StarMakerUrls ==
    { s \o h \o SharePath \o q \o id \o t :
        s \in {Https, <<>>}, h \in StarMakerHosts,
        q \in {<<"?">> \o RecordingIdEq, <<"?", "i", "d", "=">>},
        id \in Ids, t \in {<<>>, <<"#", "x">>} }

OtherUrls ==
    { <<>>,
      Https \o Www \o YoutubeCom \o <<"/", "w", "a", "t", "c", "h">>,
      Https \o YoutuBe \o <<"/", "a">>,
      YoutubeCom \o <<"/">>,
      Https \o <<"e", "x", "a", "m", "p", "l", "e", ".", "c", "o", "m">>,
      Https \o <<"e", "x", "a", "m", "p", "l", "e", ".", "c", "o", "m">> \o SlashP \o <<"a">> }

Urls == InstagramUrls \cup StarMakerUrls \cup OtherUrls

----------------------------------------------------------------------------
(* Responses of the handlers *)

\* urls field absent (it is not a list of strings)
NoUrls == <<Undefined>>

\* no descriptor: the null a strategy returns, and the media part of an error body
NoMedia ==
    [type |-> "", url |-> Undefined, urls |-> NoUrls, title |-> Undefined,
     thumbnail |-> Undefined, caption |-> Undefined, platform |-> ""]

\* fallback FALSE stands for a body without the flag
NoResponse == [status |-> 0, error |-> "", fallback |-> FALSE, media |-> NoMedia]

ErrorResponse(status, msg) ==
    [status |-> status, error |-> msg, fallback |-> FALSE, media |-> NoMedia]

\* NextResponse.json(result): status 200
MediaResponse(m) == [status |-> 200, error |-> "", fallback |-> FALSE, media |-> m]

\* a request body that is not JSON: request.json() rejects
NotJson == <<"not json">>

----------------------------------------------------------------------------
(* Upstream replies. k: "throw" (fetch or body read rejects, or the reply    *)
(* is not of the shape the code dereferences), "notok" (non-2xx), "ok".    *)

RECURSIVE ReplaceAll(_, _, _)
\* String.prototype.replace with a global literal pattern
ReplaceAll(s, lit, rep) ==
    IF s = <<>> THEN <<>>
    ELSE IF StartsAt(s, 1, lit)
         THEN rep \o ReplaceAll(SubSeq(s, Len(lit) + 1, Len(s)), lit, rep)
         ELSE <<Head(s)>> \o ReplaceAll(Tail(s), lit, rep)

EscapedAmp == <<"\\", "u", "0", "0", "2", "6">>

\* texts "([^"]+)" can capture from the embed markup
EmbedAlphabet == {"x", "\\"}
EmbedCaptures ==
    (SeqsUpTo(EmbedAlphabet, MaxCaptureLen) \ {<<>>})
        \cup {<<"x">> \o EscapedAmp \o <<"y">>}

\* no embed page was fetched
NoEmbed == [k |-> "", video |-> Null, display |-> Null]

EmbedReplies ==
    {[k |-> kk, video |-> Null, display |-> Null] : kk \in {"throw", "notok"}}
        \cup {[k |-> "ok", video |-> v, display |-> d] :
                 v \in {Null} \cup EmbedCaptures, d \in {Null} \cup EmbedCaptures}

\* .replace(/\\u0026/g, '&').replace(/\\/g, '')
Unescape(s) == ReplaceAll(ReplaceAll(s, EscapedAmp, <<"&">>), <<"\\">>, <<>>)

\* as EmbedResult, but the image-source marker is looked for first
EmbedResult_ImageFirst(o) ==
    IF o.k # "ok" THEN NoMedia
    ELSE IF o.display # Null
         THEN [NoMedia EXCEPT !.type = "image", !.url = Unescape(o.display),
                              !.platform = "instagram"]
    ELSE IF o.video # Null
         THEN [NoMedia EXCEPT !.type = "video", !.url = Unescape(o.video),
                              !.platform = "instagram"]
    ELSE NoMedia

\* src/unnamed/part_002 lines 62-95: what downloadInstagram returns
EmbedResult(o) ==
    IF o.k # "ok" THEN NoMedia
    ELSE IF o.video # Null
         THEN [NoMedia EXCEPT !.type = "video", !.url = Unescape(o.video),
                              !.platform = "instagram"]
    ELSE IF o.display # Null
         THEN [NoMedia EXCEPT !.type = "image", !.url = Unescape(o.display),
                              !.platform = "instagram"]
    ELSE NoMedia

Mp4Url == <<"h", "t", "t", "p", "s", ":", "/", "/", "c", "/", "v", ".", "m", "p", "4">>
JpgUrl == <<"h", "t", "t", "p", "s", ":", "/", "/", "c", "/", "i", ".", "j", "p", "g">>
DotMp4 == <<".", "m", "p", "4">>
SomeText == <<"t">>

\* data.media: no entry, or one entry {type, uri}
PartnerMedia ==
    {<<>>} \cup {<<[type |-> t, uri |-> u]>> :
                    t \in {"video", "image"}, u \in {Undefined, <<>>, Mp4Url}}

PartnerReplies ==
    {[k |-> kk, Type |-> "", media |-> <<>>, thumbnail |-> Undefined, caption |-> Undefined] :
        kk \in {"throw", "notok"}}
        \cup {[k |-> "ok", Type |-> t, media |-> m, thumbnail |-> x, caption |-> x] :
                 t \in {"Post", "Reel", "Story"}, m \in PartnerMedia,
                 x \in {Undefined, SomeText}}

\* src/unnamed/part_001 lines 78-92
PartnerResult(o) ==
    IF o.k = "ok" /\ o.Type \in {"Post", "Reel"} /\ o.media # <<>>
    THEN [NoMedia EXCEPT !.type = IF o.media[1].type = "video" THEN "video" ELSE "image",
                         !.url = o.media[1].uri,
                         !.thumbnail = o.thumbnail,
                         !.caption = o.caption]
    ELSE NoMedia

\* data.picker absent
NoPicker == <<Null>>
Pickers == SeqsUpTo({Mp4Url, JpgUrl}, MaxPicker)

CobaltReplies ==
    {[k |-> kk, status |-> "", url |-> Undefined, type |-> "", picker |-> NoPicker] :
        kk \in {"throw", "notok"}}
        \cup {[k |-> "ok", status |-> st, url |-> u, type |-> t, picker |-> NoPicker] :
                 st \in {"stream", "redirect", "error"},
                 u \in {Undefined, <<>>, Mp4Url, JpgUrl}, t \in {"video", "photo"}}
        \cup {[k |-> "ok", status |-> "picker", url |-> Undefined, type |-> "", picker |-> pk] :
                 pk \in {NoPicker} \cup Pickers}

\* src/unnamed/part_001 lines 112-134
CobaltResult(o) ==
    IF o.k # "ok" THEN NoMedia
    ELSE IF o.status \in {"stream", "redirect"}
         THEN LET isVideo == (o.url # Undefined /\ includes(o.url, DotMp4)) \/ o.type = "video"
              IN  [NoMedia EXCEPT !.type = IF isVideo THEN "video" ELSE "image",
                                  !.url = o.url]
    ELSE IF o.status = "picker" /\ o.picker # NoPicker
         THEN [NoMedia EXCEPT !.type = "carousel",
                              !.url = IF o.picker = <<>> THEN Undefined ELSE o.picker[1],
                              !.urls = o.picker]
    ELSE NoMedia

AmpEntity == <<"&", "a", "m", "p", ";">>

\* what /href="(https?:\/\/[^"]+(?:\.mp4|\.jpg)[^"]*)"/i captures from data.data
SavetikLinks == {Mp4Url, JpgUrl \o <<"?", "a">> \o AmpEntity \o <<"b">>}

\* data: "absent" (falsy: missing or empty), or "html" with link the match (Null: none)
SavetikReplies ==
    {[k |-> kk, status |-> "", data |-> "absent", link |-> Null] : kk \in {"throw", "notok"}}
        \cup {[k |-> "ok", status |-> st, data |-> "absent", link |-> Null] :
                 st \in {"ok", "error"}}
        \cup {[k |-> "ok", status |-> st, data |-> "html", link |-> l] :
                 st \in {"ok", "error"}, l \in {Null} \cup SavetikLinks}

\* src/unnamed/part_001 lines 153-172
SavetikResult(o) ==
    IF o.k = "ok" /\ o.status = "ok" /\ o.data = "html" /\ o.link # Null
    THEN LET mediaUrl == ReplaceAll(o.link, AmpEntity, <<"&">>)
         IN  [NoMedia EXCEPT !.type = IF includes(mediaUrl, DotMp4) THEN "video" ELSE "image",
                             !.url = mediaUrl]
    ELSE NoMedia

----------------------------------------------------------------------------
(* StarMaker: src/unnamed/part_002 lines 100-171 *)

PrimaryCdn == <<"h", "t", "t", "p", "s", ":", "/", "/", "s", "t", "a", "t", "i", "c", ".", "s", "m", "i", "n", "t", "r", "o", ".", "c", "o", "m", "/", "p", "r", "o", "d", "u", "c", "t", "i", "o", "n", "/", "u", "p", "l", "o", "a", "d", "i", "n", "g", "/", "r", "e", "c", "o", "r", "d", "i", "n", "g", "s", "/">>
SecondaryCdn == <<"h", "t", "t", "p", "s", ":", "/", "/", "s", "t", "a", "t", "i", "c", "-", "v", "7", ".", "s", "m", "i", "n", "t", "r", "o", ".", "c", "o", "m", "/", "p", "r", "o", "d", "u", "c", "t", "i", "o", "n", "/", "u", "p", "l", "o", "a", "d", "i", "n", "g", "/", "r", "e", "c", "o", "r", "d", "i", "n", "g", "s", "/">>
MasterMp4 == <<"/", "m", "a", "s", "t", "e", "r", ".", "m", "p", "4">>
StarMakerRecording == <<"S", "t", "a", "r", "M", "a", "k", "e", "r", " ", "R", "e", "c", "o", "r", "d", "i", "n", "g", " ">>

downloadUrl(recordingId) == PrimaryCdn \o recordingId \o MasterMp4
altUrl(recordingId) == SecondaryCdn \o recordingId \o MasterMp4
defaultTitle(recordingId) == StarMakerRecording \o recordingId

HeadReplies == {"throw", "notok", "ok"}

OgTitles == {<<"S", "o", "n", "g">>}
OgImages == {<<"c", ".", "p", "n", "g">>}

\* the share page: what the og:title and og:image patterns capture from it
PageReplies ==
    {[k |-> kk, ogTitle |-> Null, ogImage |-> Null] : kk \in {"throw", "notok"}}
        \cup {[k |-> "ok", ogTitle |-> t, ogImage |-> i] :
                 t \in {Null} \cup OgTitles, i \in {Null} \cup OgImages}

\* no share page was fetched
NoPage == [k |-> "", ogTitle |-> Null, ogImage |-> Null]

\* lines 110-147: the descriptor of the primary CDN, after the share-page fetch
PrimaryResult(recordingId, o) ==
    [NoMedia EXCEPT
        !.type = "video",
        !.url = downloadUrl(recordingId),
        !.title = IF o.k = "ok" /\ o.ogTitle # Null THEN o.ogTitle
                  ELSE defaultTitle(recordingId),
        !.thumbnail = IF o.k = "ok" /\ o.ogImage # Null THEN o.ogImage ELSE Undefined,
        !.platform = "starmaker"]

\* as SecondaryResult, but with the URL of the primary CDN
SecondaryResult_PrimaryUrl(recordingId) ==
    [NoMedia EXCEPT
        !.type = "video",
        !.url = downloadUrl(recordingId),
        !.title = defaultTitle(recordingId),
        !.platform = "starmaker"]

\* lines 159-164
SecondaryResult(recordingId) ==
    [NoMedia EXCEPT
        !.type = "video",
        !.url = altUrl(recordingId),
        !.title = defaultTitle(recordingId),
        !.platform = "starmaker"]

----------------------------------------------------------------------------
(* The format catalog: src/src/app/api/youtube/info/route.ts *)

MaxFormats == 3  \* most descriptors of info.formats

\* the NaN of parseInt; no string of the model parses to a negative number
NaN == -1
\* an absent numeric field (bitrate, audioBitrate)
NoNumber == -1

DigitValue(c) == CHOOSE d \in 0..9 : DigitSeq[d + 1] = c

RECURSIVE DigitsValue(_)
DigitsValue(ds) ==
    IF ds = <<>> THEN 0
    ELSE 10 * DigitsValue(SubSeq(ds, 1, Len(ds) - 1)) + DigitValue(ds[Len(ds)])

\* parseInt of a string without leading white space or sign: the value of its
\* longest prefix of digits, NaN when there is none (also for null, undefined)
parseInt(s) ==
    LET e == RunEnd(s, 1, Digit)
    IN  IF e = 1 THEN NaN ELSE DigitsValue(SubSeq(s, 1, e - 1))

RECURSIVE NumberToString(_)
NumberToString(n) ==
    IF n < 10 THEN <<DigitSeq[n + 1]>>
    ELSE NumberToString(n \div 10) \o <<DigitSeq[(n % 10) + 1]>>

\* a string in a condition: null, undefined and '' are falsy
Truthy(s) == s # Null /\ s # Undefined /\ s # <<>>

\* a raw stream descriptor (ytdl.videoFormat); url and fps are copied through
\* unchanged by the handler and are left out
Format(itag, qualityLabel, container, hasAudio, hasVideo, contentLength, bitrate, audioBitrate) ==
    [itag |-> itag, qualityLabel |-> qualityLabel, container |-> container,
     hasAudio |-> hasAudio, hasVideo |-> hasVideo, contentLength |-> contentLength,
     bitrate |-> bitrate, audioBitrate |-> audioBitrate]

Q1080p == <<"1", "0", "8", "0", "p">>
Q720p == <<"7", "2", "0", "p">>
Q720p60 == <<"7", "2", "0", "p", "6", "0">>
Q360p == <<"3", "6", "0", "p">>

\* descriptors getInfo may list: muxed, video-only, audio-only and empty ones
Formats ==
    {Format(22, Q720p, "mp4", TRUE, TRUE, <<"9">>, 8, 192),
     Format(59, Q720p, "mp4", TRUE, TRUE, Undefined, 1000000, 128),
     Format(136, Q720p, "mp4", FALSE, TRUE, Undefined, 9, NoNumber),
     Format(247, Q720p, "webm", FALSE, TRUE, <<"0">>, 9, NoNumber),
     Format(137, Q1080p, "mp4", FALSE, TRUE, Undefined, NoNumber, NoNumber),
     Format(18, Q360p, "mp4", TRUE, TRUE, <<"1", "2">>, NoNumber, 96),
     Format(298, Q720p60, "mp4", FALSE, TRUE, Undefined, 0, NoNumber),
     Format(17, Null, "3gp", TRUE, TRUE, Undefined, 9, 24),
     Format(140, Null, "mp4", TRUE, FALSE, <<"9">>, 7, 128),
     Format(140, Null, "mp4", TRUE, FALSE, Undefined, 7, 48),
     Format(251, Null, "webm", TRUE, FALSE, Undefined, 1000000, 160),
     Format(249, Null, "webm", TRUE, FALSE, Undefined, 9, NoNumber),
     Format(0, Null, "mp4", FALSE, FALSE, Undefined, 9, NoNumber)}

\* videoDetails.lengthSeconds
LengthSeconds == {Undefined, <<"0">>, <<"8">>}

\* nothing was asked of getInfo
NoInfo == [k |-> "", formats |-> <<>>, lengthSeconds |-> Undefined, thumbnails |-> 0]

\* what getInfo resolves to (thumbnails: the length of videoDetails.thumbnails;
\* an empty thumbnail list comes with at most one format), or its rejection
Infos ==
    {[NoInfo EXCEPT !.k = "throw"]}
        \cup {[k |-> "ok", formats |-> fs, lengthSeconds |-> ls, thumbnails |-> 1] :
                 fs \in SeqsUpTo(Formats, MaxFormats), ls \in LengthSeconds}
        \cup {[k |-> "ok", formats |-> fs, lengthSeconds |-> ls, thumbnails |-> 0] :
                 fs \in SeqsUpTo(Formats, 1), ls \in LengthSeconds}

\* as getSize, but contentLength is not looked at
getSize_EstimateOnly(f, lengthSeconds) ==
    IF f.bitrate # NoNumber /\ f.bitrate # 0 /\ Truthy(lengthSeconds)
    THEN (f.bitrate * parseInt(lengthSeconds)) \div 8
    ELSE 0

\* lines 26-32
getSize(f, lengthSeconds) ==
    IF Truthy(f.contentLength) THEN parseInt(f.contentLength)
    ELSE IF f.bitrate # NoNumber /\ f.bitrate # 0 /\ Truthy(lengthSeconds)
         THEN (f.bitrate * parseInt(lengthSeconds)) \div 8
    ELSE 0

\* line 46
getRes(s) == IF parseInt(s) = NaN THEN 0 ELSE parseInt(s)

\* the array of a function on 1..n, as a tuple
Array(f) == <<>> \o f

\* as SortDescending, but elements of equal keys come out in reverse order
SortDescending_Unstable(a, key) ==
    LET pos(i) == 1 + Cardinality({j \in 1..Len(a) :
                                      key[j] > key[i] \/ (key[j] = key[i] /\ j > i)})
    IN  Array([p \in 1..Len(a) |-> a[CHOOSE i \in 1..Len(a) : pos(i) = p]])

\* Array.prototype.sort, which is stable, by a key in descending order:
\* key[i] is the key of a[i]
SortDescending(a, key) ==
    LET pos(i) == 1 + Cardinality({j \in 1..Len(a) :
                                      key[j] > key[i] \/ (key[j] = key[i] /\ j < i)})
    IN  Array([p \in 1..Len(a) |-> a[CHOOSE i \in 1..Len(a) : pos(i) = p]])

\* Array.prototype.findIndex, given the indices whose element satisfies the
\* callback; indices start at 1, and 0 is for none
findIndex(matching) == IF matching = {} THEN 0 ELSE Min(matching)

\* Array.prototype.filter, given the indices idx for which the callback is true
FilterIndex(a, idx) ==
    Array([p \in 1..Cardinality(idx) |->
              a[CHOOSE i \in idx : Cardinality({j \in idx : j < i}) = p - 1]])

\* lines 35-43
VideoEntry(f, lengthSeconds) ==
    [itag |-> f.itag, qualityLabel |-> f.qualityLabel, container |-> f.container,
     hasAudio |-> f.hasAudio, hasVideo |-> f.hasVideo, size |-> getSize(f, lengthSeconds)]

\* line 52: the template `${f.audioBitrate}kbps`
AudioLabel(audioBitrate) ==
    (IF audioBitrate = NoNumber THEN <<"u", "n", "d", "e", "f", "i", "n", "e", "d">>
     ELSE NumberToString(audioBitrate)) \o <<"k", "b", "p", "s">>

\* lines 50-57
AudioEntry(f, lengthSeconds) ==
    [itag |-> f.itag, qualityLabel |-> AudioLabel(f.audioBitrate), container |-> f.container,
     hasAudio |-> f.hasAudio, hasVideo |-> f.hasVideo, audioBitrate |-> f.audioBitrate,
     size |-> getSize(f, lengthSeconds)]

\* as simplifiedFormats, but without the sort
simplifiedFormats_Unsorted(formats, lengthSeconds) ==
    LET videoFormats == SelectSeq(formats, LAMBDA f : f.hasVideo)
    IN  Array([i \in 1..Len(videoFormats) |-> VideoEntry(videoFormats[i], lengthSeconds)])

\* lines 22 and 35-48
simplifiedFormats(formats, lengthSeconds) ==
    LET videoFormats == SelectSeq(formats, LAMBDA f : f.hasVideo)
        mapped == Array([i \in 1..Len(videoFormats) |->
                            VideoEntry(videoFormats[i], lengthSeconds)])
    IN  SortDescending(mapped,
                       Array([i \in 1..Len(mapped) |-> getRes(mapped[i].qualityLabel)]))

\* as simplifiedAudioFormats, but the filter asks for audio only, not for the
\* absence of video
simplifiedAudioFormats_AnyAudio(formats, lengthSeconds) ==
    LET audioFormats == SelectSeq(formats, LAMBDA f : f.hasAudio)
        mapped == Array([i \in 1..Len(audioFormats) |->
                            AudioEntry(audioFormats[i], lengthSeconds)])
        sorted == SortDescending(mapped,
                      Array([i \in 1..Len(mapped) |->
                                IF mapped[i].audioBitrate = NoNumber THEN 0
                                ELSE mapped[i].audioBitrate]))
    IN  FilterIndex(sorted,
            {i \in 1..Len(sorted) :
                findIndex({t \in 1..Len(sorted) : sorted[t].itag = sorted[i].itag}) = i})

\* as simplifiedAudioFormats, but without the filter on the first itag
simplifiedAudioFormats_NoDedup(formats, lengthSeconds) ==
    LET audioFormats == SelectSeq(formats, LAMBDA f : f.hasAudio /\ ~f.hasVideo)
        mapped == Array([i \in 1..Len(audioFormats) |->
                            AudioEntry(audioFormats[i], lengthSeconds)])
    IN  SortDescending(mapped,
            Array([i \in 1..Len(mapped) |->
                      IF mapped[i].audioBitrate = NoNumber THEN 0
                      ELSE mapped[i].audioBitrate]))

\* as simplifiedAudioFormats, but without the sort
simplifiedAudioFormats_Unsorted(formats, lengthSeconds) ==
    LET audioFormats == SelectSeq(formats, LAMBDA f : f.hasAudio /\ ~f.hasVideo)
        mapped == Array([i \in 1..Len(audioFormats) |->
                            AudioEntry(audioFormats[i], lengthSeconds)])
    IN  FilterIndex(mapped,
            {i \in 1..Len(mapped) :
                findIndex({t \in 1..Len(mapped) : mapped[t].itag = mapped[i].itag}) = i})

\* lines 23 and 50-59
simplifiedAudioFormats(formats, lengthSeconds) ==
    LET audioFormats == SelectSeq(formats, LAMBDA f : f.hasAudio /\ ~f.hasVideo)
        mapped == Array([i \in 1..Len(audioFormats) |->
                            AudioEntry(audioFormats[i], lengthSeconds)])
        sorted == SortDescending(mapped,
                      Array([i \in 1..Len(mapped) |->
                                IF mapped[i].audioBitrate = NoNumber THEN 0
                                ELSE mapped[i].audioBitrate]))
    IN  FilterIndex(sorted,
            {i \in 1..Len(sorted) :
                findIndex({t \in 1..Len(sorted) : sorted[t].itag = sorted[i].itag}) = i})

\* as uniqueVideoFormats, but only the first format of a quality label is kept
uniqueVideoFormats_ByQuality(a) ==
    FilterIndex(a,
        {i \in 1..Len(a) :
            findIndex({t \in 1..Len(a) : a[t].qualityLabel = a[i].qualityLabel}) = i})

\* lines 63-76
uniqueVideoFormats(a) ==
    FilterIndex(a,
        {i \in 1..Len(a) :
            LET v == a[i]
                firstIndex == findIndex({t \in 1..Len(a) : a[t].qualityLabel = v.qualityLabel})
            IN  IF i = firstIndex THEN TRUE
                ELSE findIndex({t \in 1..Len(a) : /\ a[t].qualityLabel = v.qualityLabel
                                                  /\ a[t].container = v.container
                                                  /\ a[t].hasAudio = v.hasAudio}) = i})

\* no response of /api/youtube/info yet; bestAudio is <<>> when undefined and
\* <<entry>> otherwise
NoCatalog == [status |-> 0, formats |-> <<>>, audioFormats |-> <<>>, bestAudio |-> <<>>]

\* as CatalogResponse, but bestAudio is the last entry of the audio catalog
CatalogResponse_LastAudio(o) ==
    IF o.k = "throw" \/ o.thumbnails = 0 THEN [NoCatalog EXCEPT !.status = 500]
    ELSE LET audio == simplifiedAudioFormats(o.formats, o.lengthSeconds)
         IN  [status |-> 200,
              formats |-> uniqueVideoFormats(simplifiedFormats(o.formats, o.lengthSeconds)),
              audioFormats |-> audio,
              bestAudio |-> IF audio = <<>> THEN <<>> ELSE <<audio[Len(audio)]>>]

\* lines 16-89: the response to what getInfo resolved to
CatalogResponse(o) ==
    IF o.k = "throw" \/ o.thumbnails = 0 THEN [NoCatalog EXCEPT !.status = 500]
    ELSE LET audio == simplifiedAudioFormats(o.formats, o.lengthSeconds)
         IN  [status |-> 200,
              formats |-> uniqueVideoFormats(simplifiedFormats(o.formats, o.lengthSeconds)),
              audioFormats |-> audio,
              bestAudio |-> IF audio = <<>> THEN <<>> ELSE <<audio[1]>>]

----------------------------------------------------------------------------
(* The form and the relay before anything happened *)

\* src/src/components/download-form.tsx lines 46-54: the useState initial
\* values; result and youtubeInfo are <<>> for null, and otherwise hold the URL
\* of the request they answer
NoForm ==
    [url |-> <<>>, loading |-> FALSE, error |-> "", showExternalOption |-> FALSE,
     result |-> <<>>, youtubeInfo |-> <<>>]

\* no handleDownload invocation yet
NoCall == [classified |-> Null, validated |-> Null, body |-> Null]

\* no relay was asked for
NoRelay ==
    [state |-> "idle", upstream |-> "none", caller |-> "none", read |-> 0, sent |-> 0,
     failed |-> FALSE]

----------------------------------------------------------------------------
(* The handlers *)

Started(s) == [ev |-> "start", s |-> s, r |-> ""]
Ended(s, r) == [ev |-> "end", s |-> s, r |-> r]

StepEmbed(npc, c, p, id, lg, k, r, pg, em) ==
    /\ pc' = npc
    /\ cleanedUrl' = c
    /\ platform' = p
    /\ ident' = id
    /\ log' = lg
    /\ reply' = k
    /\ resp' = r
    /\ page' = pg
    /\ embed' = em
    /\ UNCHANGED <<url, route, rapidApiKey, fn, info, catalog, formVars, relay>>

StepPage(npc, c, p, id, lg, k, r, pg) == StepEmbed(npc, c, p, id, lg, k, r, pg, embed)

Step(npc, c, p, id, lg, k, r) == StepPage(npc, c, p, id, lg, k, r, page)

\* the handler sends its first upstream request
Begin(first, c, p, id) == Step(first, c, p, id, <<Started(first)>>, reply, resp)

\* return NextResponse.json(...) before any upstream request
Reject(c, p, r) == Step("done", c, p, Null, log, reply, r)

\* return NextResponse.json(...) after the upstream reply k
Return(lg, k, r) == Step("done", cleanedUrl, platform, ident, lg, k, r)

\* after the reply k a strategy ended without a result and the next one sends
\* its request
Advance(from, to, k) ==
    Step(to, cleanedUrl, platform, ident,
         log \o <<Ended(from, "none"), Started(to)>>, k, resp)

InternalServerError == ErrorResponse(500, "Internal server error. Please try again.")
UrlRequired == ErrorResponse(400, "URL is required")

\* src/unnamed/part_002 lines 226-234
InstagramBlocked ==
    [ErrorResponse(503, "Unable to fetch media. The post may be private or Instagram is blocking requests.")
        EXCEPT !.fallback = TRUE, !.media.platform = "instagram"]

\* src/unnamed/part_001 lines 178-185: error, suggestion and shortcode
InstagramUnavailable ==
    ErrorResponse(503, "Unable to fetch media from Instagram. The post may be private or Instagram is blocking automated requests.")

\* src/unnamed/part_002 lines 187, 210, 238: the branch POST takes
Dispatch(c) ==
    IF isStarMakerUrl(c) THEN "starmaker"
    ELSE IF isInstagramUrl(c) THEN "instagram"
    ELSE "unsupported"

\* src/unnamed/part_002 lines 175-241, up to the first upstream request
POST_download ==
    /\ pc = "request"
    /\ route = "download"
    /\ IF url = NotJson THEN Reject(cleanedUrl, platform, InternalServerError)
       ELSE IF url = <<>> THEN Reject(cleanedUrl, platform, UrlRequired)
       ELSE LET c == cleanUrl(url) IN
            IF Dispatch(c) = "starmaker"
            THEN LET recordingId == extractStarMakerRecordingId(c) IN
                 IF recordingId = Null
                 THEN Reject(c, "starmaker",
                             ErrorResponse(400, "Invalid StarMaker URL. Please use a valid recording share link."))
                 ELSE Begin("primaryCdn", c, "starmaker", recordingId)
            ELSE IF Dispatch(c) = "instagram"
            THEN LET shortcode == extractInstagramShortcode(c) IN
                 IF shortcode = Null
                 THEN Reject(c, "instagram",
                             ErrorResponse(400, "Invalid Instagram URL. Please use a valid post, reel, or story URL."))
                 ELSE Begin("embed", c, "instagram", shortcode)
            ELSE Reject(c, "unsupported",
                        ErrorResponse(400, "Unsupported URL. Please use Instagram or StarMaker links."))

\* as downloadInstagram, but without the try/catch around the embed fetch: a
\* rejected fetch reaches the catch of POST
downloadInstagram_Unguarded ==
    /\ pc = "embed"
    /\ \E o \in EmbedReplies :
           LET result == EmbedResult(o) IN
           IF o.k = "throw"
           THEN Return(Append(log, Ended("embed", "none")), o.k, InternalServerError)
           ELSE IF result # NoMedia
           THEN Return(Append(log, Ended("embed", "result")), o.k, MediaResponse(result))
           ELSE Return(Append(log, Ended("embed", "none")), o.k, InstagramBlocked)

\* src/unnamed/part_002 lines 60-96 and 220-234: the embed page replies
downloadInstagram ==
    /\ pc = "embed"
    /\ \E o \in EmbedReplies :
           LET result == EmbedResult(o) IN
           IF result # NoMedia
           THEN StepEmbed("done", cleanedUrl, platform, ident,
                          Append(log, Ended("embed", "result")), o.k, MediaResponse(result),
                          page, o)
           ELSE StepEmbed("done", cleanedUrl, platform, ident,
                          Append(log, Ended("embed", "none")), o.k, InstagramBlocked, page, o)

\* src/unnamed/part_002 lines 105-151: the primary CDN answers the HEAD request
downloadStarMaker_primary ==
    /\ pc = "primaryCdn"
    /\ \E k \in HeadReplies :
           IF k = "ok"
           THEN Step("sharePage", cleanedUrl, platform, ident,
                     Append(log, Started("sharePage")), k, resp)
           ELSE Advance("primaryCdn", "secondaryCdn", k)

\* as downloadStarMaker_page, but without the inner try/catch: a rejected
\* share-page fetch reaches the catch of the primary CDN check
downloadStarMaker_page_Unguarded ==
    /\ pc = "sharePage"
    /\ \E o \in PageReplies :
           LET result == PrimaryResult(ident, o)
               found == o.k = "ok" /\ (o.ogTitle # Null \/ o.ogImage # Null)
           IN  IF o.k = "throw"
               THEN StepPage("secondaryCdn", cleanedUrl, platform, ident,
                             log \o <<Ended("sharePage", "none"), Ended("primaryCdn", "none"),
                                      Started("secondaryCdn")>>,
                             o.k, resp, o)
               ELSE StepPage("done", cleanedUrl, platform, ident,
                             log \o <<Ended("sharePage", IF found THEN "result" ELSE "none"),
                                      Ended("primaryCdn", "result")>>,
                             o.k, MediaResponse(result), o)

\* src/unnamed/part_002 lines 113-147 and 197-201: the share page replies
downloadStarMaker_page ==
    /\ pc = "sharePage"
    /\ \E o \in PageReplies :
           LET result == PrimaryResult(ident, o)
               found == o.k = "ok" /\ (o.ogTitle # Null \/ o.ogImage # Null)
           IN  StepPage("done", cleanedUrl, platform, ident,
                        log \o <<Ended("sharePage", IF found THEN "result" ELSE "none"),
                                 Ended("primaryCdn", "result")>>,
                        o.k, MediaResponse(result), o)

StarMakerUnavailable ==
    ErrorResponse(503, "Unable to fetch StarMaker recording. Please check if the link is valid.")

\* as downloadStarMaker_secondary, but the failure carries the fallback flag
downloadStarMaker_secondary_Fallback ==
    /\ pc = "secondaryCdn"
    /\ \E k \in HeadReplies :
           IF k = "ok"
           THEN Return(Append(log, Ended("secondaryCdn", "result")), k,
                       MediaResponse(SecondaryResult(ident)))
           ELSE Return(Append(log, Ended("secondaryCdn", "none")), k,
                       [StarMakerUnavailable EXCEPT !.fallback = TRUE])

\* src/unnamed/part_002 lines 153-170 and 197-206: the secondary CDN answers
downloadStarMaker_secondary ==
    /\ pc = "secondaryCdn"
    /\ \E k \in HeadReplies :
           IF k = "ok"
           THEN Return(Append(log, Ended("secondaryCdn", "result")), k,
                       MediaResponse(SecondaryResult(ident)))
           ELSE Return(Append(log, Ended("secondaryCdn", "none")), k, StarMakerUnavailable)

\* as POST_instagram, but without the return on a null shortcode
POST_instagram_NoNullCheck ==
    /\ pc = "request"
    /\ route = "instagram"
    /\ IF url = NotJson THEN Reject(cleanedUrl, platform, InternalServerError)
       ELSE IF url = <<>> THEN Reject(cleanedUrl, platform, UrlRequired)
       ELSE Begin(IF rapidApiKey THEN "partner" ELSE "cobalt",
                  cleanUrlPathOnly(url), "instagram", extractShortcode(url))

\* as POST_instagram, but the partner API is tried whether or not
\* RAPIDAPI_KEY is set
POST_instagram_IgnoresKey ==
    /\ pc = "request"
    /\ route = "instagram"
    /\ IF url = NotJson THEN Reject(cleanedUrl, platform, InternalServerError)
       ELSE IF url = <<>> THEN Reject(cleanedUrl, platform, UrlRequired)
       ELSE LET shortcode == extractShortcode(url) IN
            IF shortcode = Null
            THEN Reject(cleanedUrl, "instagram",
                        ErrorResponse(400, "Invalid Instagram URL. Please use a valid post, reel, or story URL."))
            ELSE Begin("partner", cleanUrlPathOnly(url), "instagram", shortcode)

\* src/unnamed/part_001 lines 40-110, up to the first upstream request
POST_instagram ==
    /\ pc = "request"
    /\ route = "instagram"
    /\ IF url = NotJson THEN Reject(cleanedUrl, platform, InternalServerError)
       ELSE IF url = <<>> THEN Reject(cleanedUrl, platform, UrlRequired)
       ELSE LET shortcode == extractShortcode(url) IN
            IF shortcode = Null
            THEN Reject(cleanedUrl, "instagram",
                        ErrorResponse(400, "Invalid Instagram URL. Please use a valid post, reel, or story URL."))
            ELSE Begin(IF rapidApiKey THEN "partner" ELSE "cobalt",
                       cleanUrlPathOnly(url), "instagram", shortcode)

\* src/unnamed/part_001 lines 67-110: the partner API replies
POST_partner ==
    /\ pc = "partner"
    /\ \E o \in PartnerReplies :
           LET result == PartnerResult(o) IN
           IF result # NoMedia
           THEN Return(Append(log, Ended("partner", "result")), o.k, MediaResponse(result))
           ELSE Advance("partner", "cobalt", o.k)

\* as POST_cobalt, but without the return of the aggregator's result: the
\* handler goes on to the secondary scraper
POST_cobalt_FallsThrough ==
    /\ pc = "cobalt"
    /\ \E o \in CobaltReplies :
           LET result == CobaltResult(o) IN
           Step("savetik", cleanedUrl, platform, ident,
                log \o <<Ended("cobalt", IF result # NoMedia THEN "result" ELSE "none"),
                         Started("savetik")>>,
                o.k, resp)

\* src/unnamed/part_001 lines 99-151: the open aggregator replies
POST_cobalt ==
    /\ pc = "cobalt"
    /\ \E o \in CobaltReplies :
           LET result == CobaltResult(o) IN
           IF result # NoMedia
           THEN Return(Append(log, Ended("cobalt", "result")), o.k, MediaResponse(result))
           ELSE Advance("cobalt", "savetik", o.k)

\* src/unnamed/part_001 lines 140-185: the secondary scraper replies
POST_savetik ==
    /\ pc = "savetik"
    /\ \E o \in SavetikReplies :
           LET result == SavetikResult(o) IN
           IF result # NoMedia
           THEN Return(Append(log, Ended("savetik", "result")), o.k, MediaResponse(result))
           ELSE Return(Append(log, Ended("savetik", "none")), o.k, InstagramUnavailable)

\* the pure URL functions are not being exercised
NoFn ==
    [stage |-> "off", client |-> "", valid |-> FALSE, server |-> "",
     shortcode |-> Null, recordingId |-> Null, shape |-> "", id |-> Null, again |-> Null]

Init ==
    /\ url \in Urls \cup {NotJson}
    /\ route \in {"download", "instagram"}
    \* RAPIDAPI_KEY is read by the instagram route only
    /\ rapidApiKey \in (IF route = "instagram" THEN BOOLEAN ELSE {FALSE})
    /\ pc = "request"
    /\ cleanedUrl = Null
    /\ platform = ""
    /\ ident = Null
    /\ log = <<>>
    /\ reply = ""
    /\ resp = NoResponse
    /\ page = NoPage
    /\ embed = NoEmbed
    /\ fn = NoFn
    /\ info = NoInfo
    /\ catalog = NoCatalog
    /\ form = NoForm
    /\ calls = <<>>
    /\ last = NoCall
    /\ relay = NoRelay

Next ==
    \/ POST_download
    \/ downloadInstagram
    \/ downloadStarMaker_primary
    \/ downloadStarMaker_page
    \/ downloadStarMaker_secondary
    \/ POST_instagram
    \/ POST_partner
    \/ POST_cobalt
    \/ POST_savetik

Spec == Init /\ [][Next]_vars

----------------------------------------------------------------------------
(* The pure URL functions, applied to every URL of Urls *)

\* which of the four patterns of extractInstagramShortcode gives the identifier
ShortcodeShape(u) ==
    IF PatternPost(u) # Null THEN "post"
    ELSE IF PatternReel(u) # Null THEN "reel"
    ELSE IF PatternReels(u) # Null THEN "reels"
    ELSE "story"

\* the canonical URL of a shape around an identifier
CanonicalUrl(shape, id) ==
    IF shape = "post" THEN Https \o Www \o InstagramCom \o SlashP \o id \o <<"/">>
    ELSE IF shape = "reel" THEN Https \o Www \o InstagramCom \o SlashReel \o id \o <<"/">>
    ELSE IF shape = "reels" THEN Https \o Www \o InstagramCom \o SlashReels \o id \o <<"/">>
    ELSE IF shape = "story"
         THEN Https \o Www \o InstagramCom \o SlashStories \o <<"u", "/">> \o id \o <<"/">>
    ELSE Https \o <<"m", ".">> \o StarmakerCo \o SharePath \o <<"?">> \o RecordingIdEq \o id

extractIdentifier(shape, u) ==
    IF shape = "recording" THEN extractStarMakerRecordingId(u)
    ELSE extractInstagramShortcode(u)

FnStep(f) ==
    /\ fn' = f
    /\ UNCHANGED <<url, route, rapidApiKey, pc, cleanedUrl, platform, ident, log, reply, resp,
                   page, embed, info, catalog, formVars, relay>>

\* detectPlatform on the client, and the branch POST takes for the same URL
Classify ==
    /\ fn.stage = "input"
    /\ FnStep([fn EXCEPT !.stage = "classified",
                         !.client = detectPlatform(url),
                         !.server = IF url = <<>> THEN "" ELSE Dispatch(cleanUrl(url))])

Validate ==
    /\ fn.stage = "classified"
    /\ FnStep([fn EXCEPT !.stage = "validated", !.valid = validateUrl(url)])

Extract ==
    /\ fn.stage = "validated"
    /\ FnStep([fn EXCEPT !.stage = "extracted",
                         !.shortcode = extractInstagramShortcode(url),
                         !.recordingId = extractStarMakerRecordingId(url)])

\* the identifier put back into the canonical URL of its shape, and extracted again
ReExtract ==
    /\ fn.stage = "extracted"
    /\ \E shape \in {"recording", ShortcodeShape(url)} :
           LET id == extractIdentifier(shape, url) IN
           /\ id # Null
           /\ FnStep([fn EXCEPT !.stage = "reextracted",
                                !.shape = shape,
                                !.id = id,
                                !.again = extractIdentifier(shape, CanonicalUrl(shape, id))])

UrlInit ==
    /\ url \in Urls
    /\ route = ""
    /\ rapidApiKey = FALSE
    /\ pc = "off"
    /\ cleanedUrl = Null
    /\ platform = ""
    /\ ident = Null
    /\ log = <<>>
    /\ reply = ""
    /\ resp = NoResponse
    /\ page = NoPage
    /\ embed = NoEmbed
    /\ fn = [NoFn EXCEPT !.stage = "input"]
    /\ info = NoInfo
    /\ catalog = NoCatalog
    /\ form = NoForm
    /\ calls = <<>>
    /\ last = NoCall
    /\ relay = NoRelay

UrlNext ==
    \/ Classify
    \/ Validate
    \/ Extract
    \/ ReExtract

UrlSpec == UrlInit /\ [][UrlNext]_vars

----------------------------------------------------------------------------
(* /api/youtube/info: the catalog builder *)

WatchUrl == Https \o Www \o YoutubeCom \o <<"/", "w", "a", "t", "c", "h", "?", "v", "=", "a">>

CatalogStep(npc, o, c) ==
    /\ pc' = npc
    /\ info' = o
    /\ catalog' = c
    /\ UNCHANGED <<url, route, rapidApiKey, cleanedUrl, platform, ident, log, reply, resp, page,
                   embed, fn, formVars, relay>>

\* lines 5-16 and 91-96: up to the call of getInfo; whether ytdl.validateURL
\* accepts the URL is the library's answer
POST_info ==
    /\ pc = "request"
    /\ route = "youtube"
    /\ IF url = NotJson THEN CatalogStep("done", info, [NoCatalog EXCEPT !.status = 500])
       ELSE IF url = <<>> THEN CatalogStep("done", info, [NoCatalog EXCEPT !.status = 400])
       ELSE \E valid \in BOOLEAN :
                IF valid THEN CatalogStep("getInfo", info, catalog)
                ELSE CatalogStep("done", info, [NoCatalog EXCEPT !.status = 400])

\* lines 16-96: getInfo settles and the handler answers
POST_getInfo ==
    /\ pc = "getInfo"
    /\ \E o \in Infos : CatalogStep("done", o, CatalogResponse(o))

CatalogInit ==
    /\ url \in {NotJson, <<>>, WatchUrl}
    /\ route = "youtube"
    /\ rapidApiKey = FALSE
    /\ pc = "request"
    /\ cleanedUrl = Null
    /\ platform = ""
    /\ ident = Null
    /\ log = <<>>
    /\ reply = ""
    /\ resp = NoResponse
    /\ page = NoPage
    /\ embed = NoEmbed
    /\ fn = NoFn
    /\ info = NoInfo
    /\ catalog = NoCatalog
    /\ form = NoForm
    /\ calls = <<>>
    /\ last = NoCall
    /\ relay = NoRelay

CatalogNext ==
    \/ POST_info
    \/ POST_getInfo

CatalogSpec == CatalogInit /\ [][CatalogNext]_vars

----------------------------------------------------------------------------
(* The stream relay, /api/youtube/download: section 4.5 of the specification *)

MaxChunks == 8  \* most chunks the upstream stream delivers
MaxBuffer == 2  \* chunks the relay's internal buffer holds

handlerVars ==
    <<url, route, rapidApiKey, pc, cleanedUrl, platform, ident, log, reply, resp, page, embed,
      fn, info, catalog>>

\* no handler is serving a request
HandlersOff ==
    /\ url = <<>>
    /\ route = ""
    /\ rapidApiKey = FALSE
    /\ pc = "off"
    /\ cleanedUrl = Null
    /\ platform = ""
    /\ ident = Null
    /\ log = <<>>
    /\ reply = ""
    /\ resp = NoResponse
    /\ page = NoPage
    /\ embed = NoEmbed
    /\ fn = NoFn
    /\ info = NoInfo
    /\ catalog = NoCatalog

RelayStep(r) ==
    /\ relay' = r
    /\ UNCHANGED <<handlerVars, formVars>>

\* the relay re-requests the stream of the selector and starts the response
relay_start ==
    /\ relay.state = "idle"
    /\ RelayStep([relay EXCEPT !.state = "streaming", !.upstream = "open", !.caller = "open"])

\* a chunk of the upstream stream enters the buffer
relay_read ==
    /\ relay.state = "streaming"
    /\ relay.upstream = "open"
    /\ relay.read < MaxChunks
    /\ relay.read - relay.sent < MaxBuffer
    /\ RelayStep([relay EXCEPT !.read = @ + 1])

\* a chunk of the buffer goes out to the caller
relay_write ==
    /\ relay.state = "streaming"
    /\ relay.sent < relay.read
    /\ RelayStep([relay EXCEPT !.sent = @ + 1])

\* the upstream stream ends
upstream_end ==
    /\ relay.state = "streaming"
    /\ relay.upstream = "open"
    /\ RelayStep([relay EXCEPT !.upstream = "ended"])

\* every chunk of an ended stream went out: the response completes
relay_complete ==
    /\ relay.state = "streaming"
    /\ relay.upstream = "ended"
    /\ relay.sent = relay.read
    /\ RelayStep([relay EXCEPT !.state = "completed", !.upstream = "released",
                               !.caller = "closed"])

\* the upstream stream fails mid-stream: the relay aborts, without resume or
\* retry
upstream_error ==
    /\ relay.state = "streaming"
    /\ relay.upstream = "open"
    /\ RelayStep([relay EXCEPT !.state = "aborted", !.upstream = "released",
                               !.caller = "reset", !.failed = TRUE])

\* as caller_close, but the upstream stream is left to run to its end
caller_close_KeepsUpstream ==
    /\ relay.state = "streaming"
    /\ RelayStep([relay EXCEPT !.state = "cancelled", !.caller = "closed"])

\* the caller closes the outgoing connection: the upstream stream is released
\* at once
caller_close ==
    /\ relay.state = "streaming"
    /\ RelayStep([relay EXCEPT !.state = "cancelled", !.upstream = "released",
                               !.caller = "closed"])

RelayInit ==
    /\ HandlersOff
    /\ form = NoForm
    /\ calls = <<>>
    /\ last = NoCall
    /\ relay = NoRelay

RelayNext ==
    \/ relay_start
    \/ relay_read
    \/ relay_write
    \/ upstream_end
    \/ relay_complete
    \/ upstream_error
    \/ caller_close

RelaySpec == RelayInit /\ [][RelayNext]_vars

----------------------------------------------------------------------------
(* The form: src/src/components/download-form.tsx lines 82-207, 287-347 *)

MaxInFlight == 2  \* most handleDownload invocations waiting for their fetch at once

\* \s
Whitespace == {" "}

Max(S) == CHOOSE x \in S : \A y \in S : x >= y

\* String.prototype.trim
trim(s) ==
    LET Inked == {i \in 1..Len(s) : s[i] \notin Whitespace}
    IN  IF Inked = {} THEN <<>> ELSE SubSeq(s, Min(Inked), Max(Inked))

\* text.match(/(https?:\/\/[^\s]+)/g): the leftmost match, or the text itself
extractUrl(text) ==
    LET NotSpace == Range(text) \ Whitespace
        After(i) ==
            IF StartsAt(text, i, Https) THEN i + Len(Https)
            ELSE IF StartsAt(text, i, Http) THEN i + Len(Http)
            ELSE 0
        P == {i \in 1..Len(text) :
                 After(i) # 0 /\ RunEnd(text, After(i), NotSpace) > After(i)}
    IN  IF P = {} THEN text
        ELSE SubSeq(text, Min(P), RunEnd(text, After(Min(P)), NotSpace) - 1)

PostA == Https \o Www \o InstagramCom \o SlashP \o <<"a">>
ShortA == Https \o YoutuBe \o <<"/", "a">>
ExampleCom == Https \o <<"e", "x", "a", "m", "p", "l", "e", ".", "c", "o", "m">>

\* what the user types into the input, or holds in the clipboard
Texts ==
    { <<>>,
      PostA,
      PostA \o <<" ", "x">>,
      <<"s", "e", "e", " ">> \o PostA,
      ShortA,
      ExampleCom }

\* setError(""); setShowExternalOption(false); setResult(null); setYoutubeInfo(null)
Cleared(f) ==
    [f EXCEPT !.error = "", !.showExternalOption = FALSE, !.result = <<>>, !.youtubeInfo = <<>>]

\* (typeof overrideUrl === "string" ? overrideUrl : "") || url
InputUrl(overrideUrl, u) ==
    IF overrideUrl # Undefined /\ overrideUrl # <<>> THEN overrideUrl ELSE u

\* the synchronous part of handleDownload, up to its return or its fetch: f is
\* the state its setters act on, u the url of the render it was created in
handleDownload(f, overrideUrl, u) ==
    LET inputUrl == InputUrl(overrideUrl, u)
        targetUrl == extractUrl(inputUrl)
        p == detectPlatform(targetUrl)
        f1 == IF targetUrl # inputUrl THEN [f EXCEPT !.url = targetUrl] ELSE f
        f2 == [Cleared(f1) EXCEPT !.loading = TRUE]
        f3 ==
            IF p = "null"
            THEN [f2 EXCEPT
                     !.error = "Unsupported URL. Please use Instagram, StarMaker, or YouTube links."]
            ELSE f2
        invalid ==
            IF p = "instagram" THEN "Please enter a valid Instagram post, reel, or story URL"
            ELSE IF p = "starmaker" THEN "Please enter a valid StarMaker recording URL"
            ELSE IF p = "youtube" THEN "Please enter a valid YouTube URL"
            ELSE f3.error
        endpoint == IF p = "youtube" THEN "/api/youtube/info" ELSE "/api/download"
        body == IF p = "youtube" THEN targetUrl ELSE u
    IN  IF trim(targetUrl) = <<>>
        THEN [form |-> [f EXCEPT !.error = "Please enter a URL"], call |-> <<>>, last |-> NoCall]
        ELSE IF ~validateUrl(u)
        THEN [form |-> [f3 EXCEPT !.error = invalid],
              call |-> <<>>,
              last |-> [classified |-> targetUrl, validated |-> u, body |-> Null]]
        ELSE [form |-> [Cleared(f3) EXCEPT !.loading = TRUE],
              call |-> <<[endpoint |-> endpoint, target |-> targetUrl, body |-> body,
                          platform |-> p]>>,
              last |-> [classified |-> targetUrl, validated |-> u, body |-> body]]

FormStep(f, c, l) ==
    /\ Len(c) <= MaxInFlight
    /\ form' = f
    /\ calls' = c
    /\ last' = l
    /\ UNCHANGED <<handlerVars, relay>>

\* handleDownload is called in the render the form is in
Invoke(f, overrideUrl) ==
    LET o == handleDownload(f, overrideUrl, form.url)
    IN  FormStep(o.form, calls \o o.call, o.last)

\* lines 287-293
onChange ==
    \E text \in Texts :
        /\ text # form.url
        /\ FormStep(Cleared([form EXCEPT !.url = text]), calls, last)

\* line 294
onKeyDown_Enter == Invoke(form, Undefined)

\* lines 344-347: the button is disabled while loading
onClick ==
    /\ ~form.loading
    /\ Invoke(form, Undefined)

\* lines 88-106
handlePaste ==
    \E text \in Texts :
        LET extractedUrl == extractUrl(text)
            f == Cleared([form EXCEPT !.url = extractedUrl])
        IN  IF extractedUrl # <<>> /\ (extractedUrl # text \/ validateUrl(extractedUrl))
            THEN Invoke(f, extractedUrl)
            ELSE FormStep(f, calls, last)

\* lines 107-110: navigator.clipboard.readText() rejects
handlePaste_catch == FormStep([form EXCEPT !.error = "Could not access clipboard"], calls, last)

Without(s, i) == SubSeq(s, 1, i - 1) \o SubSeq(s, i + 1, Len(s))

\* lines 159-180: the fetch of /api/youtube/info settles
youtube_info_settled ==
    \E i \in 1..Len(calls), outcome \in {"ok", "notok", "throw"} :
        /\ calls[i].endpoint = "/api/youtube/info"
        /\ FormStep(IF outcome = "ok"
                    THEN [form EXCEPT !.youtubeInfo = <<calls[i]>>, !.loading = FALSE]
                    ELSE [form EXCEPT !.error = "Failed to fetch YouTube info", !.loading = FALSE],
                    Without(calls, i), last)

\* lines 183-206: the fetch of /api/download settles; the route answers 200 to
\* a URL of platform A or B only (src/unnamed/part_002 lines 185-240)
download_settled ==
    \E i \in 1..Len(calls), outcome \in {"ok", "notok", "throw"}, fallback \in BOOLEAN :
        /\ calls[i].endpoint = "/api/download"
        /\ outcome = "ok" => (isInstagramUrl(calls[i].body) \/ isStarMakerUrl(calls[i].body))
        /\ FormStep(IF outcome = "ok"
                    THEN [form EXCEPT !.result = <<calls[i]>>, !.loading = FALSE]
                    ELSE IF outcome = "notok"
                    THEN [form EXCEPT
                             !.showExternalOption =
                                 IF fallback /\ calls[i].platform = "instagram" THEN TRUE ELSE @,
                             !.error = "Failed to fetch media",
                             !.loading = FALSE]
                    ELSE [form EXCEPT !.error = "Something went wrong", !.loading = FALSE],
                    Without(calls, i), last)

FormInit ==
    /\ HandlersOff
    /\ form = NoForm
    /\ calls = <<>>
    /\ last = NoCall
    /\ relay = NoRelay

FormNext ==
    \/ onChange
    \/ onKeyDown_Enter
    \/ onClick
    \/ handlePaste
    \/ handlePaste_catch
    \/ youtube_info_settled
    \/ download_settled

FormSpec == FormInit /\ [][FormNext]_vars

----------------------------------------------------------------------------
(* Properties of the strategy chains (Spec) *)

Strategies == {"embed", "partner", "cobalt", "savetik", "primaryCdn", "secondaryCdn"}

\* the chain of the resolution under way, in priority order
Chain ==
    IF route = "instagram"
    THEN (IF rapidApiKey THEN <<"partner", "cobalt", "savetik">> ELSE <<"cobalt", "savetik">>)
    ELSE IF platform = "starmaker" THEN <<"primaryCdn", "secondaryCdn">>
    ELSE <<"embed">>

\* the strategies started so far, in the order they were started
StartedStrategies ==
    LET starts == SelectSeq(log, LAMBDA e : e.ev = "start" /\ e.s \in Strategies)
    IN  [i \in 1..Len(starts) |-> starts[i].s]

IsPrefix(a, b) == Len(a) <= Len(b) /\ a = SubSeq(b, 1, Len(a))

\* C1: strategies run one at a time in their fixed priority order: the
\* strategies started are a prefix of the chain, when one is started every
\* strategy started before it has ended without a result, and nothing is
\* started after a strategy has ended with a result.
C1_StrategiesInPriorityOrder ==
    /\ IsPrefix(StartedStrategies, Chain)
    /\ \A j \in 1..Len(log) :
           (log[j].ev = "start" /\ log[j].s \in Strategies) =>
               \A i \in 1..(j - 1) :
                   log[i].s \in Strategies =>
                       /\ log[i].ev = "end" => log[i].r = "none"
                       /\ log[i].ev = "start" =>
                              \E k \in (i + 1)..(j - 1) : log[k] = Ended(log[i].s, "none")

\* the partner API ended without a result, the aggregator then returned one,
\* and the handler returned without starting the secondary scraper
C1_Witness ==
    /\ pc = "done"
    /\ log = <<Started("partner"), Ended("partner", "none"),
               Started("cobalt"), Ended("cobalt", "result")>>

\* every strategy of the chain has run and none has a result
ChainExhausted ==
    /\ pc = "done"
    /\ log # <<>>
    /\ \A i \in 1..Len(log) : log[i].ev = "end" => log[i].r = "none"

\* C2: when every platform-A strategy ends without a result the handler
\* returns the upstream-blocked failure with the fallback flag set, and no
\* descriptor.
C2_ExhaustionCarriesFallback ==
    (ChainExhausted /\ platform = "instagram") =>
        /\ resp.status = 503
        /\ resp.fallback = TRUE
        /\ resp.media.type = ""
        /\ resp.media.url = Undefined

NextStrategy(s) ==
    IF s = "partner" THEN "cobalt"
    ELSE IF s = "cobalt" THEN "savetik"
    ELSE IF s = "primaryCdn" THEN "secondaryCdn"
    ELSE "done"

\* C3: every strategy fails closed: after a rejected fetch or a non-2xx reply
\* the strategy has ended without a result; a strategy that ended without a
\* result (also by a pattern miss) is followed by the next strategy of the
\* chain or, being the last, by the 503 of the exhausted chain; and no
\* response after an upstream call is the 500 of the handler's outer catch.
C3_StrategiesFailClosed ==
    /\ log # <<>> => resp.status # 500
    /\ (reply \in {"throw", "notok"} /\ log # <<>>) =>
           LET ends == SelectSeq(log, LAMBDA e : e.ev = "end" /\ e.s \in Strategies)
           IN  \/ /\ ends # <<>>
                  /\ ends[Len(ends)].r = "none"
               \* the enrichment fetch of the primary CDN strategy failed
               \/ log[Len(log) - 1] = Ended("sharePage", "none")
    /\ \A i \in 1..Len(log) :
           (log[i].ev = "end" /\ log[i].s \in Strategies /\ log[i].r = "none") =>
               IF i = Len(log)
               THEN pc = "done" /\ resp.status = 503 /\ NextStrategy(log[i].s) = "done"
               ELSE /\ log[i + 1] = Started(NextStrategy(log[i].s))
                    /\ NextStrategy(log[i].s) \in Strategies

\* the aggregator's fetch was rejected and the secondary scraper was started
C3_Witness ==
    /\ reply = "throw"
    /\ pc = "savetik"
    /\ log[Len(log) - 1] = Ended("cobalt", "none")

\* C4: every successful response carries a non-empty url.
C4_MediaUrlNonEmpty ==
    resp.status = 200 => (resp.media.url # Undefined /\ resp.media.url # <<>>)

\* C5: in a successful response urls is present and non-empty exactly when the
\* type is carousel, and the url of a carousel is the first entry of urls.
C5_UrlsIffCarousel ==
    resp.status = 200 =>
        /\ (resp.media.urls # NoUrls /\ resp.media.urls # <<>>) <=> resp.media.type = "carousel"
        /\ resp.media.type = "carousel" =>
               (resp.media.urls # <<>> /\ resp.media.url = resp.media.urls[1])

\* the request URL belongs to no platform of the handler, or the platform's
\* identifier cannot be extracted from it
Unidentified ==
    IF route = "instagram" THEN extractShortcode(url) = Null
    ELSE LET c == cleanUrl(url) IN
         \/ ~isStarMakerUrl(c) /\ ~isInstagramUrl(c)
         \/ isStarMakerUrl(c) /\ extractStarMakerRecordingId(c) = Null
         \/ ~isStarMakerUrl(c) /\ isInstagramUrl(c) /\ extractInstagramShortcode(c) = Null

\* C6: for a URL of no recognized platform, or one whose identifier cannot be
\* extracted, no upstream call is ever made and the handler's response is the
\* 400 of an invalid URL.
C6_InvalidUrlIsTerminal ==
    (url # NotJson /\ Unidentified) =>
        /\ log = <<>>
        /\ pc \in {"request", "done"}
        /\ pc = "done" => (resp.status = 400 /\ resp.media = NoMedia)

\* a platform-A URL without a short code was answered
C6_Witness ==
    /\ pc = "done"
    /\ route = "download"
    /\ platform = "instagram"
    /\ ident = Null
    /\ resp.status = 400

\* the platform the client assigns, as a branch of POST (the client's third
\* platform and its null are no branch of this handler)
ClientBranch(u) ==
    IF detectPlatform(u) \in {"instagram", "starmaker"} THEN detectPlatform(u)
    ELSE "unsupported"

\* C7: classification is first-match-wins in the order A, B, C: a URL that
\* contains the platform-A domain is handled as platform A, and the branch
\* the handler takes is the platform detectPlatform assigns.
C7_SamePlatform ==
    (route = "download" /\ pc # "request" /\ url # NotJson /\ url # <<>>) =>
        /\ includes(url, InstagramCom) => platform = "instagram"
        /\ platform = ClientBranch(url)

----------------------------------------------------------------------------
(* Properties of the URL functions (UrlSpec) *)

\* C8 as claimed: every URL that contains the platform-A domain followed by
\* /p/<short code> is classified as platform A and validated.
C8_ContainsPostPath ==
    (fn.stage = "validated" /\ PatternPost(url) # Null) =>
        (fn.client = "instagram" /\ fn.valid)

\* the URL starts with http:// or https://, an optional www., the platform-A
\* domain and /p/<short code>
StartsWithPostUrl(u) ==
    \E s \in {Http, Https}, w \in {<<>>, Www} :
        LET lit == s \o w \o InstagramCom \o SlashP
        IN  StartsAt(u, 1, lit) /\ Len(u) > Len(lit) /\ u[Len(lit) + 1] \in ShortcodeChar

\* C8 as amended: every URL that starts with http:// or https://, an optional
\* www., the platform-A domain and /p/<short code> is classified as platform A
\* and validated.
C8_PostUrlIsValid ==
    (fn.stage = "validated" /\ StartsWithPostUrl(url)) =>
        (fn.client = "instagram" /\ fn.valid)

C8_Witness ==
    /\ fn.stage = "validated"
    /\ StartsWithPostUrl(url)
    /\ StartsAt(url, 1, Https \o Www)
    /\ fn.valid

\* C9: a URL that validateUrl accepts as platform A has an identifier:
\* extractInstagramShortcode does not return null on it.
C9_ValidHasShortcode ==
    (fn.stage = "extracted" /\ fn.client = "instagram" /\ fn.valid) =>
        fn.shortcode # Null

\* C10: an identifier put back into the canonical URL of its shape and
\* extracted again is the same identifier.
C10_ExtractIdempotent ==
    fn.stage = "reextracted" => fn.again = fn.id

\* a story id of more than one digit went round
C10_Witness ==
    /\ fn.stage = "reextracted"
    /\ fn.shape = "story"
    /\ Len(fn.id) > 1
    /\ fn.again = fn.id

----------------------------------------------------------------------------
(* Properties of the partner credential and of the platform-B chain (Spec) *)

\* C11: the partner API is attempted in a resolution if and only if
\* RAPIDAPI_KEY is configured: it is the first strategy started when the key is
\* set, and without the key no request goes to the partner endpoint and the
\* first strategy started is the aggregator.
C11_PartnerIffCredential ==
    /\ (\E i \in 1..Len(log) : log[i].s = "partner") <=>
           (route = "instagram" /\ rapidApiKey /\ log # <<>>)
    /\ (route = "instagram" /\ rapidApiKey /\ log # <<>>) => log[1] = Started("partner")
    /\ (route = "instagram" /\ ~rapidApiKey /\ log # <<>>) => log[1] = Started("cobalt")

\* without the key a resolution ran through its whole chain
C11_Witness ==
    /\ route = "instagram"
    /\ ~rapidApiKey
    /\ pc = "done"
    /\ log = <<Started("cobalt"), Ended("cobalt", "none"),
               Started("savetik"), Ended("savetik", "none")>>

\* the primary CDN check failed and the secondary CDN check succeeded
SecondaryCdnSucceeded ==
    /\ pc = "done"
    /\ platform = "starmaker"
    /\ log = <<Started("primaryCdn"), Ended("primaryCdn", "none"),
               Started("secondaryCdn"), Ended("secondaryCdn", "result")>>

\* C12: when the primary CDN check fails (non-2xx or thrown) and the secondary
\* CDN check succeeds, the response is a video descriptor whose url is the
\* secondary CDN URL of the recording id of the request, and whose title is
\* 'StarMaker Recording <id>'.
C12_SecondaryCdnDescriptor ==
    SecondaryCdnSucceeded =>
        LET recordingId == extractStarMakerRecordingId(cleanUrl(url)) IN
        /\ resp.status = 200
        /\ resp.media.type = "video"
        /\ resp.media.url = SecondaryCdn \o recordingId \o MasterMp4
        /\ resp.media.title = StarMakerRecording \o recordingId

\* the primary CDN check threw, the secondary one answered 2xx, for a
\* recording id of two digits
C12_Witness ==
    /\ SecondaryCdnSucceeded
    /\ resp.status = 200
    /\ Len(ident) = 2

\* C13: after the success of either CDN check the share page is fetched, and
\* the og:title and og:image found on it are the title and the thumbnail of
\* the descriptor.
C13_EnrichmentAfterEitherCdn ==
    (pc = "done" /\ platform = "starmaker" /\ resp.status = 200) =>
        /\ \E i \in 1..Len(log) : log[i] = Started("sharePage")
        /\ (page.k = "ok" /\ page.ogTitle # Null) => resp.media.title = page.ogTitle
        /\ (page.k = "ok" /\ page.ogImage # Null) => resp.media.thumbnail = page.ogImage

\* the share page was fetched and gave no og tag: the fetch threw, the reply
\* was not 2xx, or neither pattern matched
EnrichmentFailed ==
    /\ pc = "done"
    /\ platform = "starmaker"
    /\ \E i \in 1..Len(log) : log[i] = Ended("sharePage", "none")

\* C14 as claimed: a failed enrichment is not fatal: the response is still the
\* descriptor with the CDN url, and title and thumbnail are absent from it.
C14_FailedEnrichmentLeavesFieldsAbsent ==
    EnrichmentFailed =>
        /\ resp.status = 200
        /\ resp.media.url = PrimaryCdn \o ident \o MasterMp4
        /\ resp.media.title = Undefined
        /\ resp.media.thumbnail = Undefined

\* C14 as amended: a failed enrichment is not fatal: the response is still the
\* descriptor with the CDN url, its thumbnail is absent and its title is the
\* default 'StarMaker Recording <id>'.
C14_FailedEnrichmentKeepsDefaults ==
    EnrichmentFailed =>
        /\ resp.status = 200
        /\ resp.media.type = "video"
        /\ resp.media.url = PrimaryCdn \o ident \o MasterMp4
        /\ resp.media.title = StarMakerRecording \o ident
        /\ resp.media.thumbnail = Undefined

\* the share-page fetch threw after the primary CDN check had succeeded
C14_Witness ==
    /\ EnrichmentFailed
    /\ page.k = "throw"
    /\ resp.status = 200

\* C15: when both CDN checks fail the response is the 503 'unable to fetch
\* StarMaker recording' without a descriptor; the fallback flag is only in the
\* 503 of an exhausted platform-A chain, in no platform-B response and in no
\* 400 response.
C15_FallbackOnlyForPlatformA ==
    /\ (pc = "done" /\ platform = "starmaker" /\ log # <<>>
            /\ log[Len(log)] = Ended("secondaryCdn", "none")) =>
           /\ resp = StarMakerUnavailable
           /\ resp.status = 503
           /\ resp.media = NoMedia
    /\ resp.fallback => (platform = "instagram" /\ ChainExhausted /\ resp.status = 503)
    /\ (platform = "starmaker" \/ resp.status = 400) => ~resp.fallback

\* both CDN checks failed, the second by a rejected fetch
C15_Witness ==
    /\ pc = "done"
    /\ platform = "starmaker"
    /\ reply = "throw"
    /\ log[Len(log)] = Ended("secondaryCdn", "none")
    /\ resp.status = 503

----------------------------------------------------------------------------
(* Properties of the format catalog (CatalogSpec) *)

\* the indices of the descriptors getInfo listed, and of those with video
FormatIndices == 1..Len(info.formats)
VideoIndices == {j \in FormatIndices : info.formats[j].hasVideo}

\* C16: every entry of the video catalog has video, every entry of the audio
\* catalog has audio and no video, every entry stems from a descriptor of the
\* input, no descriptor is in both catalogs, and a descriptor with neither
\* audio nor video is in neither.
C16_CatalogsPartitionFormats ==
    catalog.status = 200 =>
        LET video == Range(catalog.formats)
            audio == Range(catalog.audioFormats)
            asVideo(j) == VideoEntry(info.formats[j], info.lengthSeconds)
            asAudio(j) == AudioEntry(info.formats[j], info.lengthSeconds)
        IN  /\ \A e \in video : e.hasVideo
            /\ \A e \in audio : e.hasAudio /\ ~e.hasVideo
            /\ \A e \in video : \E j \in FormatIndices : e = asVideo(j)
            /\ \A e \in audio : \E j \in FormatIndices : e = asAudio(j)
            /\ \A j \in FormatIndices : ~(asVideo(j) \in video /\ asAudio(j) \in audio)
            /\ \A j \in FormatIndices :
                   (~info.formats[j].hasAudio /\ ~info.formats[j].hasVideo) =>
                       (asVideo(j) \notin video /\ asAudio(j) \notin audio)

\* a muxed, an audio-only and an empty descriptor were catalogued
C16_Witness ==
    /\ catalog.status = 200
    /\ Len(info.formats) = 3
    /\ info.formats[1].hasVideo /\ info.formats[1].hasAudio
    /\ info.formats[2].hasAudio /\ ~info.formats[2].hasVideo
    /\ ~info.formats[3].hasAudio /\ ~info.formats[3].hasVideo
    /\ Len(catalog.formats) = 1
    /\ Len(catalog.audioFormats) = 1

\* the composite key of the video catalog
Key(e) == <<e.qualityLabel, e.container, e.hasAudio>>

\* C17: the video catalog has exactly one entry for each distinct
\* (qualityLabel, container, hasAudio) among the descriptors with video.
C17_OneEntryPerKey ==
    catalog.status = 200 =>
        LET entries == 1..Len(catalog.formats) IN
        /\ {Key(catalog.formats[i]) : i \in entries} = {Key(info.formats[j]) : j \in VideoIndices}
        /\ \A i, k \in entries : i # k => Key(catalog.formats[i]) # Key(catalog.formats[k])

\* of three 720p descriptors two share the key and the third differs in
\* hasAudio or container only
C17_Witness ==
    /\ catalog.status = 200
    /\ Len(info.formats) = 3
    /\ \A j \in FormatIndices : info.formats[j].hasVideo /\ info.formats[j].qualityLabel = Q720p
    /\ Key(info.formats[1]) = Key(info.formats[3])
    /\ info.formats[1] # info.formats[3]
    /\ Len(catalog.formats) = 2

\* C18: the entry kept for a key is the first-seen one: it is made from the
\* descriptor of that key that comes first in the input list.
C18_FirstSeenIsKept ==
    catalog.status = 200 =>
        \A i \in 1..Len(catalog.formats) :
            LET same == {j \in VideoIndices : Key(info.formats[j]) = Key(catalog.formats[i])}
            IN  /\ same # {}
                /\ catalog.formats[i] = VideoEntry(info.formats[Min(same)], info.lengthSeconds)
                /\ catalog.formats[i].itag = info.formats[Min(same)].itag

\* two descriptors of one key came after a descriptor of a lower resolution, so
\* the sort moved them, and the first of the two was kept
C18_Witness ==
    /\ catalog.status = 200
    /\ Len(info.formats) = 3
    /\ info.formats[1].itag = 18
    /\ info.formats[2].itag = 59
    /\ info.formats[3].itag = 22
    /\ Len(catalog.formats) = 2
    /\ catalog.formats[1].itag = 59
    /\ catalog.formats[2].itag = 18

\* C19: in the video catalog the numeric prefix of qualityLabel, 0 for an
\* absent or unparseable label, never increases from one entry to the next.
C19_VideoCatalogDescending ==
    catalog.status = 200 =>
        \A i, k \in 1..Len(catalog.formats) :
            i < k => getRes(catalog.formats[i].qualityLabel) >= getRes(catalog.formats[k].qualityLabel)

\* 1080p, no label, 720p came out as 1080p, 720p, no label
C19_Witness ==
    /\ catalog.status = 200
    /\ Len(info.formats) = 3
    /\ info.formats[1].qualityLabel = Q1080p
    /\ info.formats[2].qualityLabel = Null
    /\ info.formats[2].hasVideo
    /\ info.formats[3].qualityLabel = Q720p
    /\ Len(catalog.formats) = 3
    /\ catalog.formats[1].qualityLabel = Q1080p
    /\ catalog.formats[2].qualityLabel = Q720p
    /\ catalog.formats[3].qualityLabel = Null

\* the size the specification gives a descriptor
SpecifiedSize(f) ==
    IF f.contentLength # Undefined THEN DigitsValue(f.contentLength)
    ELSE IF f.bitrate # NoNumber /\ info.lengthSeconds # Undefined
         THEN (f.bitrate * DigitsValue(info.lengthSeconds)) \div 8
    ELSE 0

\* C20: the size of every catalog entry is the descriptor's byte length when
\* it has one; otherwise floor(bitrate * durationSeconds / 8) when it has a
\* bitrate and the duration is known; otherwise 0.
C20_SizeEstimation ==
    catalog.status = 200 =>
        /\ \A e \in Range(catalog.formats) :
               \E j \in FormatIndices :
                   /\ e = VideoEntry(info.formats[j], info.lengthSeconds)
                   /\ e.size = SpecifiedSize(info.formats[j])
        /\ \A e \in Range(catalog.audioFormats) :
               \E j \in FormatIndices :
                   /\ e = AudioEntry(info.formats[j], info.lengthSeconds)
                   /\ e.size = SpecifiedSize(info.formats[j])
        /\ \A j \in FormatIndices :
               getSize(info.formats[j], info.lengthSeconds) = SpecifiedSize(info.formats[j])

\* bitrate 1,000,000 and duration 8 gave 1,000,000, next to a descriptor with
\* a byte length
C20_Witness ==
    /\ catalog.status = 200
    /\ info.lengthSeconds = <<"8">>
    /\ Len(catalog.formats) = 2
    /\ \E j \in FormatIndices :
           /\ info.formats[j].contentLength = Undefined
           /\ info.formats[j].bitrate = 1000000
           /\ catalog.formats[1] = VideoEntry(info.formats[j], info.lengthSeconds)
    /\ catalog.formats[1].size = 1000000
    /\ catalog.formats[2].size = 12

\* the indices of the audio-only descriptors getInfo listed
AudioIndices == {j \in FormatIndices : info.formats[j].hasAudio /\ ~info.formats[j].hasVideo}

\* the audio bitrate as the sort reads it: 0 when unknown
BitrateOrZero(e) == IF e.audioBitrate = NoNumber THEN 0 ELSE e.audioBitrate

\* the audio catalog has exactly one entry for each itag of the audio-only
\* descriptors
OneEntryPerItag ==
    LET entries == 1..Len(catalog.audioFormats) IN
    /\ {catalog.audioFormats[i].itag : i \in entries} = {info.formats[j].itag : j \in AudioIndices}
    /\ \A i, k \in entries : i # k => catalog.audioFormats[i].itag # catalog.audioFormats[k].itag

\* C21 as claimed: the audio catalog has exactly one entry per itag of the
\* audio-only descriptors, and the entry kept for an itag is made from the
\* first descriptor of that itag in input order.
C21_FirstSeenItagIsKept ==
    catalog.status = 200 =>
        /\ OneEntryPerItag
        /\ \A i \in 1..Len(catalog.audioFormats) :
               LET same == {j \in AudioIndices : info.formats[j].itag = catalog.audioFormats[i].itag}
               IN  catalog.audioFormats[i] = AudioEntry(info.formats[Min(same)], info.lengthSeconds)

\* C21 as amended: the audio catalog has exactly one entry per itag of the
\* audio-only descriptors, and the entry kept for an itag is made from the
\* descriptor of that itag with the highest audio bitrate (unknown counting as
\* 0), the first in input order among those.
C21_HighestBitrateItagIsKept ==
    catalog.status = 200 =>
        /\ OneEntryPerItag
        /\ \A i \in 1..Len(catalog.audioFormats) :
               LET same == {j \in AudioIndices : info.formats[j].itag = catalog.audioFormats[i].itag}
                   best == {j \in same : \A m \in same :
                               BitrateOrZero(info.formats[j]) >= BitrateOrZero(info.formats[m])}
               IN  catalog.audioFormats[i] = AudioEntry(info.formats[Min(best)], info.lengthSeconds)

\* two descriptors of itag 140 came in the order 48 kbps, 128 kbps and the one
\* of 128 kbps was kept
C21_Witness ==
    /\ catalog.status = 200
    /\ Len(info.formats) = 2
    /\ info.formats[1].itag = 140 /\ info.formats[1].audioBitrate = 48
    /\ info.formats[2].itag = 140 /\ info.formats[2].audioBitrate = 128
    /\ Len(catalog.audioFormats) = 1
    /\ catalog.audioFormats[1].audioBitrate = 128

\* C22: in the audio catalog the audio bitrate, 0 when unknown, never
\* increases from one entry to the next.
C22_AudioCatalogDescending ==
    catalog.status = 200 =>
        \A i, k \in 1..Len(catalog.audioFormats) :
            i < k => BitrateOrZero(catalog.audioFormats[i]) >= BitrateOrZero(catalog.audioFormats[k])

\* unknown, 48 and 128 kbps came out as 128, unknown, after the entry of
\* 48 kbps, of the itag of the one of 128 kbps, was dropped
C22_Witness ==
    /\ catalog.status = 200
    /\ Len(info.formats) = 3
    /\ info.formats[1].audioBitrate = NoNumber /\ info.formats[1].itag = 249
    /\ info.formats[2].audioBitrate = 48 /\ info.formats[2].itag = 140
    /\ info.formats[3].audioBitrate = 128 /\ info.formats[3].itag = 140
    /\ Len(catalog.audioFormats) = 2
    /\ catalog.audioFormats[1].audioBitrate = 128
    /\ catalog.audioFormats[2].audioBitrate = NoNumber

\* C23: bestAudio is undefined exactly when the audio catalog is empty, and
\* otherwise it is the first entry of the audio catalog and its bitrate is at
\* least that of every audio-only descriptor of the input.
C23_BestAudioIsFirst ==
    catalog.status = 200 =>
        /\ catalog.bestAudio = <<>> <=> catalog.audioFormats = <<>>
        /\ catalog.audioFormats # <<>> =>
               /\ catalog.bestAudio = <<catalog.audioFormats[1]>>
               /\ \A j \in AudioIndices :
                      BitrateOrZero(catalog.bestAudio[1]) >= BitrateOrZero(info.formats[j])

\* of audio at 48 and 160 kbps, in this order, bestAudio is the one at 160
C23_Witness ==
    /\ catalog.status = 200
    /\ Len(info.formats) = 2
    /\ info.formats[1].audioBitrate = 48 /\ ~info.formats[1].hasVideo
    /\ info.formats[2].audioBitrate = 160 /\ ~info.formats[2].hasVideo
    /\ catalog.bestAudio # <<>>
    /\ catalog.bestAudio[1].itag = 251

\* C24: a response that follows the call of getInfo is a failure when getInfo
\* rejected or listed no format, and no successful response has both catalogs
\* empty.
C24_NoEmptyCatalogSuccess ==
    /\ (pc = "done" /\ info.k = "throw") => catalog.status = 500
    /\ (pc = "done" /\ info.k = "ok" /\ info.formats = <<>>) => catalog.status >= 400
    /\ catalog.status = 200 => (catalog.formats # <<>> \/ catalog.audioFormats # <<>>)

----------------------------------------------------------------------------
(* Properties of the embed-page scrape (Spec) *)

\* C25: after a 2xx reply of the embed page the response is a video
\* descriptor with the unescaped captured URL when the markup has a
\* video-source marker, with or without an image-source marker; an image
\* descriptor when it has an image-source marker only; no result when it has
\* neither; and the platform of a descriptor is platform A.
C25_EmbedScrape ==
    (pc = "done" /\ embed.k = "ok") =>
        /\ embed.video # Null =>
               /\ resp.status = 200
               /\ resp.media.type = "video"
               /\ resp.media.url = Unescape(embed.video)
        /\ (embed.video = Null /\ embed.display # Null) =>
               /\ resp.status = 200
               /\ resp.media.type = "image"
               /\ resp.media.url = Unescape(embed.display)
        /\ (embed.video = Null /\ embed.display = Null) =>
               /\ resp.status = 503
               /\ resp.media.type = ""
               /\ log[Len(log)] = Ended("embed", "none")
        /\ resp.status = 200 =>
               /\ resp.media.platform = "instagram"
               /\ "\\" \notin Range(resp.media.url)
               /\ ~includes(resp.media.url, EscapedAmp)

\* the markup had both markers, and the video URL x&y came out as x&y
C25_Witness ==
    /\ pc = "done"
    /\ embed.k = "ok"
    /\ embed.video = <<"x">> \o EscapedAmp \o <<"y">>
    /\ embed.display # Null
    /\ resp.media.type = "video"
    /\ resp.media.url = <<"x", "&", "y">>

----------------------------------------------------------------------------
(* Properties of the stream relay (RelaySpec) *)

----------------------------------------------------------------------------
(* Properties of the form (FormSpec) *)

\* C27: once every handleDownload invocation has returned and none waits for a
\* request, loading is false.
C27_LoadingIsReset == calls = <<>> => ~form.loading

\* C28: result and youtubeInfo are never both non-null.
C28_OneResultKind == ~(form.result # <<>> /\ form.youtubeInfo # <<>>)

\* C29: a result or a catalog on display answers the URL the url state holds.
C29_DisplayedAnswersUrl ==
    /\ form.result # <<>> => form.result[1].target = form.url
    /\ form.youtubeInfo # <<>> => form.youtubeInfo[1].target = form.url

\* C30: the URL classified, the URL validated and the URL of the request body
\* of one handleDownload invocation are the same string.
C30_OneUrlPerInvocation ==
    /\ last.validated # Null => last.validated = last.classified
    /\ last.body # Null => last.body = last.classified

====
